---------------------------- MODULE Spec2Model ----------------------------
(***************************************************************************)
(* BybitOrderBook (src/src/orderbook.py): the depth-limited order book     *)
(* that the WebSocket callback handle_message fills and that the Dash      *)
(* callbacks read through get_order_book.                                  *)
(*                                                                         *)
(* Two threads share the object: the WebSocket thread ("ws"), which calls  *)
(* handle_message once per feed message, and a reader thread ("rd"),       *)
(* which calls get_order_book.  self.lock is a threading.Lock: it is not   *)
(* re-entrant, so an acquire by the thread that already holds it blocks.   *)
(*                                                                         *)
(* Prices and quantities arrive as text and are parsed by float(); the     *)
(* model keeps the text and parses it with Float.  The pairs of data["b"]  *)
(* and data["a"] are drawn when the code reaches the statement that reads  *)
(* them: the message is immutable, so drawing them at the call gives the   *)
(* same behaviours.                                                        *)
(***************************************************************************)
EXTENDS Integers, Sequences, FiniteSets, TLC

\* depth of the book (main.py passes 50; the model keeps a small book)
Depth == 2
\* most [price, quantity] pairs in data["b"] of a snapshot message
MaxBidLevels == 3
\* most [price, quantity] pairs in data["a"] of a snapshot message
MaxAskLevels == 1
\* most [price, quantity] pairs per side of a delta message
MaxDeltaPairs == 2

\* text tokens of the feed; "abc" is not a number
PriceTok == {"98", "99", "100"}
QtyTok == {"0", "1", "2"}
BadPairs == {<<"abc", "1">>, <<"100", "abc">>}
\* the [price, quantity] pairs a snapshot is drawn from, and those of a delta
SnapPairs == (PriceTok \X {"0", "1"}) \cup BadPairs
DeltaPairs == (PriceTok \X QtyTok) \cup BadPairs

Sides == {"bids", "asks"}
Types == {"snapshot", "delta", "other"}
\* message.get("type") and whether message.get("data", {}) is truthy
Messages == [type : Types, data : BOOLEAN]

VARIABLES
  order_book,  \* self.order_book: [bids, asks], each a sequence of <<price, quantity>>
  lock,        \* self.lock: "free", or the thread that holds it
  ws_pc,       \* where the WebSocket thread is
  msg,         \* the message handle_message was called with
  in_hm,       \* handle_message is on the WebSocket thread's stack
  k,           \* pairs of the current side's list that _update_order_book has consumed
  hm_result,   \* how the last call that ended on the WebSocket thread ended
  rd_pc,       \* where the reader thread is
  bids_df,     \* get_order_book's local bids_df
  asks_df,     \* get_order_book's local asks_df
  config,      \* self.symbol, self.depth, self.testnet
  last,        \* history: the branch the last _update_side call of the running loop
               \* took, and whether it left the list other than it found it
  lost         \* history: per side, the prices whose levels the cut to depth dropped
               \* and that the feed has not sent for that side since

vars == <<order_book, lock, ws_pc, msg, in_hm, k, hm_result, rd_pc, bids_df, asks_df,
          config, last, lost>>
hist_vars == <<last, lost>>
ws_vars == <<ws_pc, msg, in_hm, k, hm_result>>
rd_vars == <<rd_pc, bids_df, asks_df>>

NoMsg == [type |-> "none", data |-> FALSE]
NoUpdate == [branch |-> "none", moved |-> FALSE]
NothingLost == [side \in Sides |-> {}]

-----------------------------------------------------------------------------
(* float(): the number a token denotes; "abc" raises ValueError *)
IsNumber(tok) == tok \in {"0", "1", "2", "98", "99", "100"}

Float(tok) ==
  CASE tok = "0" -> 0
    [] tok = "1" -> 1
    [] tok = "2" -> 2
    [] tok = "98" -> 98
    [] tok = "99" -> 99
    [] tok = "100" -> 100

PairParses(pair) == IsNumber(pair[1]) /\ IsNumber(pair[2])

\* [[float(price), float(quantity)] for price, quantity in raw]
ParsesAll(raw) == \A i \in 1..Len(raw) : PairParses(raw[i])
ParseLevels(raw) == [i \in 1..Len(raw) |-> <<Float(raw[i][1]), Float(raw[i][2])>>]

RawLists(n) == UNION {[1..m -> SnapPairs] : m \in 0..n}

\* a snapshot branch that extends the stored list instead of replacing it
AssignedExtend(book, side, raw) == [book EXCEPT ![side] = @ \o ParseLevels(raw)]

\* self.order_book[side] = [...]: the assignment of a snapshot's parsed list
Assigned(book, side, raw) == [book EXCEPT ![side] = ParseLevels(raw)]

\* lines 30-32 as a whole: the book a snapshot call leaves, with the bids and
\* asks lists it carries; a list that does not parse stops the call there
SnapshotApplied(book, raw_bids, raw_asks) ==
  IF ~ParsesAll(raw_bids) THEN book
  ELSE IF ~ParsesAll(raw_asks) THEN Assigned(book, "bids", raw_bids)
  ELSE Assigned(Assigned(book, "bids", raw_bids), "asks", raw_asks)

-----------------------------------------------------------------------------
(* _update_side, as a function of the side's list *)

\* the first index whose level has this price, 0 when the for loop ends without break
FirstIndex(book_side, price) ==
  IF \E i \in 1..Len(book_side) : book_side[i][1] = price
  THEN CHOOSE i \in 1..Len(book_side) :
         /\ book_side[i][1] = price
         /\ \A j \in 1..(i - 1) : book_side[j][1] # price
  ELSE 0

\* list.pop(i)
Pop(s, i) == [j \in 1..(Len(s) - 1) |-> IF j < i THEN s[j] ELSE s[j + 1]]

\* x sorts before y under key price, reversed for bids
Before(side, x, y) == IF side = "bids" THEN x[1] > y[1] ELSE x[1] < y[1]

\* sorted() is stable: x goes after every element it does not sort before
RECURSIVE Insert(_, _, _)
Insert(side, x, s) ==
  IF s = <<>> THEN <<x>>
  ELSE IF Before(side, x, Head(s)) THEN <<x>> \o s
       ELSE <<Head(s)>> \o Insert(side, x, Tail(s))

RECURSIVE InsertAll(_, _, _)
InsertAll(side, s, acc) ==
  IF s = <<>> THEN acc ELSE InsertAll(side, Tail(s), Insert(side, Head(s), acc))

\* sorted(book_side, key=lambda x: x[0], reverse=(side == "bids"))
Sorted(side, s) == InsertAll(side, s, <<>>)

\* s[:n]
Take(s, n) == IF Len(s) <= n THEN s ELSE SubSeq(s, 1, n)

\* lines 55-65: the scan, then pop, replace or append
Scanned(book_side, price, quantity) ==
  LET i == FirstIndex(book_side, price) IN
    IF i # 0
    THEN IF quantity = 0 THEN Pop(book_side, i)
         ELSE [book_side EXCEPT ![i] = <<price, quantity>>]
    ELSE IF quantity > 0 THEN Append(book_side, <<price, quantity>>)
         ELSE book_side

\* lines 56-65: the branch of _update_side that runs
Branch(book_side, price, quantity) ==
  IF FirstIndex(book_side, price) # 0
    THEN IF quantity = 0 THEN "pop" ELSE "replace"
    ELSE IF quantity > 0 THEN "append" ELSE "skip"

\* the prices that lines 67-68 cut away: on the sorted list beyond depth, and
\* on no level that stays
CutPrices(book_side, side, price, quantity) ==
  LET full == Sorted(side, Scanned(book_side, price, quantity))
  IN {full[i][1] : i \in (Depth + 1)..Len(full)}
       \ {Take(full, Depth)[i][1] : i \in 1..Len(Take(full, Depth))}

\* _update_side that sorts and keeps every level (no cut to depth)
UpdateSideNoCut(book_side, side, price, quantity) ==
  Sorted(side, Scanned(book_side, price, quantity))

\* _update_side that returns at once when the scan changed no level
UpdateSideSkipReturns(book_side, side, price, quantity) ==
  IF Branch(book_side, price, quantity) = "skip"
    THEN book_side
    ELSE Take(Sorted(side, Scanned(book_side, price, quantity)), Depth)

\* lines 67-68: the sort and the cut to depth
UpdateSide(book_side, side, price, quantity) ==
  Take(Sorted(side, Scanned(book_side, price, quantity)), Depth)

-----------------------------------------------------------------------------
Init ==
  /\ order_book = [bids |-> <<>>, asks |-> <<>>]
  /\ lock = "free"
  /\ ws_pc = "idle"
  /\ msg = NoMsg
  /\ in_hm = FALSE
  /\ k = 0
  /\ hm_result = "none"
  /\ rd_pc = "idle"
  /\ bids_df = <<>>
  /\ asks_df = <<>>
  /\ config = [symbol |-> "BTCUSDT", depth |-> Depth, testnet |-> TRUE]
  /\ last = NoUpdate
  /\ lost = NothingLost

(* handle_message, lines 21-27: the call; falsy data returns at once *)
HandleMessage(m) ==
  /\ ws_pc = "idle"
  /\ IF m.data
     THEN /\ ws_pc' = "hm_acquire"
          /\ msg' = m
          /\ in_hm' = TRUE
          /\ hm_result' = hm_result
     ELSE /\ ws_pc' = "idle"
          /\ msg' = NoMsg
          /\ in_hm' = FALSE
          /\ hm_result' = "ok"
  /\ UNCHANGED <<order_book, lock, k, rd_vars>>
  /\ UNCHANGED <<config, hist_vars>>

(* line 29: with self.lock *)
HmAcquire ==
  /\ ws_pc = "hm_acquire"
  /\ lock = "free"
  /\ lock' = "ws"
  /\ ws_pc' = "hm_dispatch"
  /\ UNCHANGED <<order_book, msg, in_hm, k, hm_result, rd_vars>>
  /\ UNCHANGED <<config, hist_vars>>

(* lines 30-31: a snapshot's bids; a bad token raises before the assignment *)
SnapshotBids(raw) ==
  /\ ws_pc = "hm_dispatch"
  /\ msg.type = "snapshot"
  /\ IF ParsesAll(raw)
     THEN /\ order_book' = Assigned(order_book, "bids", raw)
          /\ lost' = [lost EXCEPT !.bids = {}]
          /\ ws_pc' = "snap_asks"
     ELSE /\ order_book' = order_book
          /\ lost' = lost
          /\ ws_pc' = "hm_raise"
  /\ UNCHANGED <<lock, msg, in_hm, k, hm_result, rd_vars>>
  /\ UNCHANGED <<config, last>>

(* line 32: a snapshot's asks *)
SnapshotAsks(raw) ==
  /\ ws_pc = "snap_asks"
  /\ IF ParsesAll(raw)
     THEN /\ order_book' = Assigned(order_book, "asks", raw)
          /\ lost' = [lost EXCEPT !.asks = {}]
          /\ ws_pc' = "hm_exit"
     ELSE /\ order_book' = order_book
          /\ lost' = lost
          /\ ws_pc' = "hm_raise"
  /\ UNCHANGED <<lock, msg, in_hm, k, hm_result, rd_vars>>
  /\ UNCHANGED <<config, last>>

(* lines 33-34: a delta calls _update_order_book, the lock still held *)
HmDelta ==
  /\ ws_pc = "hm_dispatch"
  /\ msg.type = "delta"
  /\ ws_pc' = "uob_acquire"
  /\ UNCHANGED <<order_book, lock, msg, in_hm, k, hm_result, rd_vars>>
  /\ UNCHANGED <<config, hist_vars>>

\* an unknown type handled as a snapshot without lists: the book is emptied
HmUnknownClears ==
  /\ ws_pc = "hm_dispatch"
  /\ msg.type \notin {"snapshot", "delta"}
  /\ order_book' = [bids |-> <<>>, asks |-> <<>>]
  /\ ws_pc' = "hm_exit"
  /\ UNCHANGED <<lock, msg, in_hm, k, hm_result, rd_vars>>
  /\ UNCHANGED <<config, hist_vars>>

(* lines 35-36: any other type is logged *)
HmUnknown ==
  /\ ws_pc = "hm_dispatch"
  /\ msg.type \notin {"snapshot", "delta"}
  /\ ws_pc' = "hm_exit"
  /\ UNCHANGED <<order_book, lock, msg, in_hm, k, hm_result, rd_vars>>
  /\ UNCHANGED <<config, hist_vars>>

(* the with block ends, line 38 logs, the call returns *)
HmExit ==
  /\ ws_pc = "hm_exit"
  /\ lock' = "free"
  /\ ws_pc' = "idle"
  /\ msg' = NoMsg
  /\ in_hm' = FALSE
  /\ hm_result' = "ok"
  /\ UNCHANGED <<order_book, k, rd_vars>>
  /\ UNCHANGED <<config, hist_vars>>

(* a ValueError leaves the with block, which releases the lock, and the call *)
HmRaise ==
  /\ ws_pc = "hm_raise"
  /\ lock' = "free"
  /\ ws_pc' = "idle"
  /\ msg' = NoMsg
  /\ in_hm' = FALSE
  /\ hm_result' = "ValueError"
  /\ UNCHANGED <<order_book, k, rd_vars>>
  /\ UNCHANGED <<config, hist_vars>>

-----------------------------------------------------------------------------
(* _update_order_book *)

(* line 40: a call from outside handle_message, the lock not held by the caller *)
UpdateOrderBook ==
  /\ ws_pc = "idle"
  /\ ws_pc' = "uob_acquire"
  /\ msg' = [type |-> "delta", data |-> TRUE]
  /\ UNCHANGED <<order_book, lock, in_hm, k, hm_result, rd_vars>>
  /\ UNCHANGED <<config, hist_vars>>

(* line 42: with self.lock *)
UobAcquire ==
  /\ ws_pc = "uob_acquire"
  /\ lock = "free"
  /\ lock' = "ws"
  /\ ws_pc' = "uob_bids"
  /\ k' = 0
  /\ UNCHANGED <<order_book, msg, in_hm, hm_result, rd_vars>>
  /\ UNCHANGED <<config, hist_vars>>

(* lines 43-46 and 48-51: one turn of a loop *)
UobPair(side, pc, pair) ==
  /\ ws_pc = pc
  /\ k < MaxDeltaPairs
  /\ IF PairParses(pair)
     THEN /\ order_book' =
               [order_book EXCEPT
                  ![side] = UpdateSide(order_book[side], side, Float(pair[1]), Float(pair[2]))]
          /\ last' = [branch |-> Branch(order_book[side], Float(pair[1]), Float(pair[2])),
                      moved |-> order_book'[side] # order_book[side]]
          /\ lost' = [lost EXCEPT
                        ![side] = (@ \ {Float(pair[1])})
                                    \cup CutPrices(order_book[side], side, Float(pair[1]), Float(pair[2]))]
          /\ ws_pc' = pc
          /\ k' = k + 1
     ELSE /\ order_book' = order_book
          /\ last' = NoUpdate
          /\ lost' = lost
          /\ ws_pc' = "uob_raise"
          /\ k' = 0
  /\ UNCHANGED <<lock, msg, in_hm, hm_result, rd_vars, config>>

UobBids(pair) == UobPair("bids", "uob_bids", pair)

\* the asks loop calling _update_side with "bids"
UobAsksOnBids(pair) == UobPair("bids", "uob_asks", pair)

UobAsks(pair) == UobPair("asks", "uob_asks", pair)

(* the bids loop ends *)
UobBidsEnd ==
  /\ ws_pc = "uob_bids"
  /\ ws_pc' = "uob_asks"
  /\ k' = 0
  /\ UNCHANGED <<order_book, lock, msg, in_hm, hm_result, rd_vars>>
  /\ last' = NoUpdate
  /\ UNCHANGED <<config, lost>>

(* the asks loop ends, the with block releases the lock, the call returns   *)
(* (to handle_message when it made the call: UobAcquire never lets a call   *)
(* from handle_message in, so that branch is written down but not taken)    *)
UobExit ==
  /\ ws_pc = "uob_asks"
  /\ lock' = "free"
  /\ k' = 0
  /\ IF in_hm
     THEN /\ ws_pc' = "hm_exit"
          /\ UNCHANGED <<msg, hm_result>>
     ELSE /\ ws_pc' = "idle"
          /\ msg' = NoMsg
          /\ hm_result' = "ok"
  /\ UNCHANGED <<order_book, in_hm, rd_vars>>
  /\ last' = NoUpdate
  /\ UNCHANGED <<config, lost>>

(* a ValueError leaves the with block, which releases the lock, and the call *)
UobRaise ==
  /\ ws_pc = "uob_raise"
  /\ lock' = "free"
  /\ IF in_hm
     THEN /\ ws_pc' = "hm_raise"
          /\ UNCHANGED <<msg, hm_result>>
     ELSE /\ ws_pc' = "idle"
          /\ msg' = NoMsg
          /\ hm_result' = "ValueError"
  /\ UNCHANGED <<order_book, in_hm, k, rd_vars>>
  /\ last' = NoUpdate
  /\ UNCHANGED <<config, lost>>

-----------------------------------------------------------------------------
(* get_order_book *)

(* line 81: the call *)
GetOrderBook ==
  /\ rd_pc = "idle"
  /\ rd_pc' = "rd_acquire"
  /\ bids_df' = <<>>
  /\ asks_df' = <<>>
  /\ UNCHANGED <<order_book, lock, ws_vars>>
  /\ UNCHANGED <<config, hist_vars>>

(* get_order_book without its with self.lock: the reads are not guarded *)
RdAcquireUnlocked ==
  /\ rd_pc = "rd_acquire"
  /\ rd_pc' = "rd_bids"
  /\ UNCHANGED <<order_book, lock, ws_vars, bids_df, asks_df>>
  /\ UNCHANGED <<config, hist_vars>>

(* line 83: with self.lock *)
RdAcquire ==
  /\ rd_pc = "rd_acquire"
  /\ lock = "free"
  /\ lock' = "rd"
  /\ rd_pc' = "rd_bids"
  /\ UNCHANGED <<order_book, ws_vars, bids_df, asks_df>>
  /\ UNCHANGED <<config, hist_vars>>

(* line 84: pd.DataFrame copies the bids *)
RdBids ==
  /\ rd_pc = "rd_bids"
  /\ bids_df' = order_book.bids
  /\ rd_pc' = "rd_asks"
  /\ UNCHANGED <<order_book, lock, ws_vars, asks_df>>
  /\ UNCHANGED <<config, hist_vars>>

(* line 85: pd.DataFrame copies the asks *)
RdAsks ==
  /\ rd_pc = "rd_asks"
  /\ asks_df' = order_book.asks
  /\ rd_pc' = "rd_return"
  /\ UNCHANGED <<order_book, lock, ws_vars, bids_df>>
  /\ UNCHANGED <<config, hist_vars>>

(* line 87: return inside the with block, which releases the lock *)
RdReturn ==
  /\ rd_pc = "rd_return"
  /\ lock' = "free"
  /\ rd_pc' = "idle"
  /\ bids_df' = <<>>
  /\ asks_df' = <<>>
  /\ UNCHANGED <<order_book, ws_vars>>
  /\ UNCHANGED <<config, hist_vars>>

-----------------------------------------------------------------------------
Next ==
  \/ \E m \in Messages : HandleMessage(m)
  \/ HmAcquire
  \/ \E raw \in RawLists(MaxBidLevels) : SnapshotBids(raw)
  \/ \E raw \in RawLists(MaxAskLevels) : SnapshotAsks(raw)
  \/ HmDelta
  \/ HmUnknown
  \/ HmExit
  \/ HmRaise
  \/ GetOrderBook
  \/ RdAcquire
  \/ RdBids
  \/ RdAsks
  \/ RdReturn

Spec == Init /\ [][Next]_vars

(* handle_message for snapshots, and _update_order_book entered on its own *)
NextDelta ==
  \/ \E m \in Messages : HandleMessage(m)
  \/ HmAcquire
  \/ \E raw \in RawLists(MaxBidLevels) : SnapshotBids(raw)
  \/ \E raw \in RawLists(MaxAskLevels) : SnapshotAsks(raw)
  \/ HmDelta
  \/ HmUnknown
  \/ HmExit
  \/ HmRaise
  \/ UpdateOrderBook
  \/ UobAcquire
  \/ \E pair \in DeltaPairs : UobBids(pair)
  \/ UobBidsEnd
  \/ \E pair \in DeltaPairs : UobAsks(pair)
  \/ UobExit
  \/ UobRaise

SpecDelta == Init /\ [][NextDelta]_vars

(* every method together: handle_message, _update_order_book entered on its *)
(* own, and the reader; snapshot lists are kept to MaxAskLevels levels here  *)
NextFrame ==
  \/ \E m \in Messages : HandleMessage(m)
  \/ HmAcquire
  \/ \E raw \in RawLists(MaxAskLevels) : SnapshotBids(raw)
  \/ \E raw \in RawLists(MaxAskLevels) : SnapshotAsks(raw)
  \/ HmDelta
  \/ HmUnknown
  \/ HmExit
  \/ HmRaise
  \/ UpdateOrderBook
  \/ UobAcquire
  \/ \E pair \in DeltaPairs : UobBids(pair)
  \/ UobBidsEnd
  \/ \E pair \in DeltaPairs : UobAsks(pair)
  \/ UobExit
  \/ UobRaise
  \/ GetOrderBook
  \/ RdAcquire
  \/ RdBids
  \/ RdAsks
  \/ RdReturn

SpecFrame == Init /\ [][NextFrame]_vars


(* The threads keep running: a step that is enabled is taken, and a thread   *)
(* that finds the lock free again and again gets it.  Neither the feed nor   *)
(* the reader has to make another call.                                      *)
WsStep ==
  \/ \E raw \in RawLists(MaxBidLevels) : SnapshotBids(raw)
  \/ \E raw \in RawLists(MaxAskLevels) : SnapshotAsks(raw)
  \/ HmDelta
  \/ HmUnknown
  \/ HmExit
  \/ HmRaise

RdStep == RdBids \/ RdAsks \/ RdReturn

FairSpec ==
  /\ Spec
  /\ WF_vars(WsStep)
  /\ WF_vars(RdStep)
  /\ SF_vars(HmAcquire)
  /\ SF_vars(RdAcquire)

-----------------------------------------------------------------------------
(* Properties *)

Price(level) == level[1]
Quantity(level) == level[2]

StrictlyDescending(s) == \A i \in 1..(Len(s) - 1) : Price(s[i]) > Price(s[i + 1])
StrictlyAscending(s) == \A i \in 1..(Len(s) - 1) : Price(s[i]) < Price(s[i + 1])

\* no call is running on the WebSocket thread
BetweenCalls == ws_pc = "idle"

\* the book holds no part of a message whose other part is still to be
\* applied: the WebSocket thread is not between a snapshot's two assignments
\* nor inside the loops of _update_order_book
AtMessageBoundary == ws_pc \notin {"snap_asks", "uob_bids", "uob_asks"}

\* C1: after any sequence of handle_message calls the bids are strictly
\* descending by price and the asks strictly ascending, so no price occurs
\* twice within a side.
SortInvariant ==
  BetweenCalls =>
    /\ StrictlyDescending(order_book.bids)
    /\ StrictlyAscending(order_book.asks)

\* C2: after any sequence of handle_message calls each side holds at most
\* depth levels, also right after a snapshot that carries more.
DepthInvariant ==
  BetweenCalls =>
    /\ Len(order_book.bids) <= Depth
    /\ Len(order_book.asks) <= Depth

\* C3: every handle_message call ends, with the lock released, whatever the
\* message kind; a delta with data is applied and the call returns.
HandleMessageTerminates ==
  (ws_pc # "idle") ~> (ws_pc = "idle" /\ lock # "ws")

\* C4: a get_order_book call that waits for the lock gets it and returns.
GetOrderBookReturns ==
  (rd_pc = "rd_acquire") ~> (rd_pc = "idle")

\* C5: the pair get_order_book has read, at the moment it has read both
\* sides, is the book as it stands between two whole messages: both sides
\* equal the book's, and the book is not part-way through a message.
ReadConsistency ==
  [][(rd_pc = "rd_asks" /\ rd_pc' = "rd_return") =>
       /\ bids_df' = order_book'.bids
       /\ asks_df' = order_book'.asks
       /\ AtMessageBoundary']_vars

\* C5 witness: the reader has read a non-empty book while a handle_message
\* call waits for the lock the reader holds.
ReadConsistencyWitness ==
  /\ rd_pc = "rd_return"
  /\ bids_df # <<>>
  /\ asks_df # <<>>
  /\ ws_pc = "hm_acquire"
  /\ msg.type = "snapshot"

\* the levels of a side at this price, and the others
LevelsAt(s, price) == {i \in 1..Len(s) : Price(s[i]) = price}
OtherLevels(s, price) == {s[i] : i \in (1..Len(s)) \ LevelsAt(s, price)}

\* the loop of _update_order_book that works on a side
LoopOf(side) == IF side = "bids" THEN "uob_bids" ELSE "uob_asks"

\* C6: a delta update (p, 0) on a side that holds a level at p removes it and
\* keeps the side's other levels; on a side that holds no level at p it leaves
\* the whole book as it was, whatever the side held before.
ZeroQuantityDeletion ==
  [][\A side \in Sides, pt \in PriceTok :
       UobPair(side, LoopOf(side), <<pt, "0">>) =>
         LET s == order_book[side]
             t == order_book'[side]
         IN IF LevelsAt(s, Float(pt)) # {}
            THEN /\ Cardinality(LevelsAt(t, Float(pt))) = Cardinality(LevelsAt(s, Float(pt))) - 1
                 /\ OtherLevels(t, Float(pt)) = OtherLevels(s, Float(pt))
            ELSE order_book' = order_book]_vars

\* C7: a delta update (p, q) with q > 0 on an empty side leaves exactly the
\* level [p, q]; on a side that holds a level at p it leaves a level [p, q],
\* as many levels as before and no more levels at p than before.
UpsertReplace ==
  [][\A side \in Sides, pt \in PriceTok, qt \in {"1", "2"} :
       UobPair(side, LoopOf(side), <<pt, qt>>) =>
         LET s == order_book[side]
             t == order_book'[side]
             level == <<Float(pt), Float(qt)>>
         IN /\ s = <<>> => t = <<level>>
            /\ LevelsAt(s, Float(pt)) # {} =>
                 /\ \E i \in 1..Len(t) : t[i] = level
                 /\ Len(t) = Len(s)
                 /\ Cardinality(LevelsAt(t, Float(pt))) <= Cardinality(LevelsAt(s, Float(pt)))]_vars

\* the snapshot of the depth eviction scenario
ScenarioBids == <<<<"100", "1">>, <<"99", "1">>, <<"98", "1">>>>

\* C8: with depth 2 a snapshot with bids [[100,1],[99,1],[98,1]] leaves the
\* bids [[100,1],[99,1]]: a snapshot keeps only the depth best-priced levels.
DepthEviction ==
  [][SnapshotBids(ScenarioBids) =>
       order_book'.bids = Take(Sorted("bids", ParseLevels(ScenarioBids)), Depth)]_vars

\* C9: after a handle_message call that failed on a token that is no number
\* the lock is free, and the next snapshot or delta message is handled to
\* its end.
MalformedTokenRecovery ==
  /\ [](hm_result = "ValueError" /\ BetweenCalls => lock # "ws")
  /\ (hm_result = "ValueError" /\ ws_pc = "hm_acquire" /\ msg.type \in {"snapshot", "delta"})
       ~> (ws_pc = "idle" /\ lock # "ws")

\* C10: after any sequence of snapshot and delta messages every level of the
\* book has a quantity above 0.
PositiveQuantity ==
  BetweenCalls =>
    \A side \in Sides : \A i \in 1..Len(order_book[side]) : Quantity(order_book[side][i]) > 0

(* ------------------------------------------------------------------ *)
(* Snapshots                                                            *)
(* ------------------------------------------------------------------ *)

EmptyBook == [bids |-> <<>>, asks |-> <<>>]

\* no call of either thread is running
Quiescent == ws_pc = "idle" /\ rd_pc = "idle"

\* C11: between calls, for every snapshot the feed can send, handling it twice
\* in a row leaves the book handling it once leaves, whatever the book held.
SnapshotIdempotence ==
  Quiescent =>
    \A raw_bids \in RawLists(MaxBidLevels), raw_asks \in RawLists(MaxAskLevels) :
      SnapshotApplied(SnapshotApplied(order_book, raw_bids, raw_asks), raw_bids, raw_asks)
        = SnapshotApplied(order_book, raw_bids, raw_asks)

\* a snapshot call has returned and left levels on both sides: the book is the
\* one a snapshot leaves, and another snapshot can follow
SnapshotIdempotenceWitness ==
  /\ Quiescent
  /\ hm_result = "ok"
  /\ Len(order_book.bids) = MaxBidLevels
  /\ order_book.asks # <<>>
  /\ \E raw_bids \in RawLists(MaxBidLevels), raw_asks \in RawLists(MaxAskLevels) :
       /\ ParsesAll(raw_bids) /\ ParsesAll(raw_asks)
       /\ SnapshotApplied(EmptyBook, raw_bids, raw_asks) = order_book

\* what spec.md has a snapshot leave on a side: its levels, re-sorted, cut to depth
Normalised(side, levels) == Take(Sorted(side, levels), Depth)

\* C12: when a snapshot's list is applied, the side is exactly that list
\* re-sorted (bids descending, asks ascending) and cut to depth, with nothing of
\* what the side held before.
SnapshotSupersedes ==
  [][/\ \A raw \in RawLists(MaxBidLevels) :
          (SnapshotBids(raw) /\ ParsesAll(raw)) =>
            order_book'.bids = Normalised("bids", ParseLevels(raw))
     /\ \A raw \in RawLists(MaxAskLevels) :
          (SnapshotAsks(raw) /\ ParsesAll(raw)) =>
            order_book'.asks = Normalised("asks", ParseLevels(raw))]_vars

(* ------------------------------------------------------------------ *)
(* Messages that fail, are empty, or are of an unknown kind             *)
(* ------------------------------------------------------------------ *)

\* C13: a list with a token that does not parse changes nothing of its side:
\* a snapshot list that fails leaves the side as it was, and when the second
\* pair of a delta list fails, the first pair has left the side as it found it.
ParseErrorAtomicity ==
  [][/\ \A raw \in RawLists(MaxBidLevels) :
          (SnapshotBids(raw) /\ ~ParsesAll(raw)) => order_book'.bids = order_book.bids
     /\ \A raw \in RawLists(MaxAskLevels) :
          (SnapshotAsks(raw) /\ ~ParsesAll(raw)) => order_book'.asks = order_book.asks
     /\ \A side \in Sides, pair \in BadPairs :
          (UobPair(side, LoopOf(side), pair) /\ k = 1) => ~last.moved]_vars

\* C14: a message with no update data for either side changes neither side:
\* a call whose data is empty, and a snapshot whose bids and asks lists are both
\* empty (at the asks list the bids list is already assigned: it was empty
\* exactly when the bids side is).
EmptyMessageNoOp ==
  [][/\ \A m \in Messages : (HandleMessage(m) /\ ~m.data) => order_book' = order_book
     /\ (SnapshotAsks(<<>>) /\ order_book.bids = <<>>) => order_book' = order_book]_vars

UnknownKindReturns ==
  (ws_pc = "hm_acquire" /\ msg.type = "other") ~> (ws_pc = "idle" /\ lock # "ws")

DeltaBeforeSnapshot ==
  (ws_pc = "hm_acquire" /\ msg.type = "delta" /\ order_book = EmptyBook)
    ~> (ws_pc = "idle" /\ lock # "ws")

\* C17: a price whose levels the cut to depth has dropped from a side is on
\* no level of that side, whatever is removed from the side afterwards, until
\* the feed sends that price for that side again (or a snapshot replaces the
\* side).
EvictedStayLost ==
  \A side \in Sides :
    \A i \in 1..Len(order_book[side]) : Price(order_book[side][i]) \notin lost[side]

\* a level has been dropped by the cut, and the last update of this side's
\* list removed a level: the side has room again and the dropped price is
\* still lost
EvictedStayLostWitness ==
  \E side \in Sides :
    /\ ws_pc = LoopOf(side)
    /\ last.branch = "pop"
    /\ lost[side] # {}
    /\ Len(order_book[side]) < Depth

\* prices never get better from one level to the next (equal prices allowed)
NonStrictlyOrdered(side, s) ==
  \A i \in 1..(Len(s) - 1) : ~Before(side, s[i + 1], s[i])

\* C18: right after every _update_side call, whichever branch it took (none
\* included: quantity 0 for a price the side does not hold), the side has at
\* most depth levels, in non-strict price order, whatever it held before.
UpdateSideNormalises ==
  \A side \in Sides :
    (ws_pc = LoopOf(side) /\ last.branch # "none") =>
      /\ Len(order_book[side]) <= Depth
      /\ NonStrictlyOrdered(side, order_book[side])

\* the last call changed no level (quantity 0, price not on the side) and
\* still left the list other than it found it: it re-sorted or cut a side a
\* snapshot had left unsorted or too long
UpdateSideNormalisesWitness ==
  \E side \in Sides :
    /\ ws_pc = LoopOf(side)
    /\ last.branch = "skip"
    /\ last.moved

(* ------------------------------------------------------------------ *)
(* Frame                                                                *)
(* ------------------------------------------------------------------ *)

\* C19: while the bids list of a delta is applied the asks side stays as it
\* is, and while the asks list is applied the bids side does; no step of any
\* call changes symbol or depth; no step of get_order_book changes the book.
FrameEffects ==
  /\ [][(ws_pc = "uob_bids") => order_book'.asks = order_book.asks]_vars
  /\ [][(ws_pc = "uob_asks") => order_book'.bids = order_book.bids]_vars
  /\ [][config' = config]_vars
  /\ [][(rd_pc' # rd_pc) => order_book' = order_book]_vars

\* an update has just changed the asks side while the bids side holds levels,
\* and a get_order_book call is waiting for the lock
FrameEffectsWitness ==
  /\ ws_pc = "uob_asks"
  /\ last.moved
  /\ order_book.bids # <<>>
  /\ order_book.asks # <<>>
  /\ rd_pc = "rd_acquire"

=============================================================================
